---- MODULE Spec2Model ----
(***************************************************************************)
(* Model of pubsub/consumer.go: the consumers of one redis stream and one  *)
(* consumer group.  The store (stream, group bookkeeping, key space) is    *)
(* shared; every consumer has one caller that issues Consume and SetResult *)
(* calls one after the other.  A call is cut into steps at its store round *)
(* trips, so calls of different consumers interleave between them.         *)
(*                                                                         *)
(* A store command either is executed atomically or fails with an error    *)
(* and has no effect.  A key written with an expiry may expire at any      *)
(* later moment (no clock is modelled for result records).                 *)
(*                                                                         *)
(* Every consumer also has a reporter: the thread Start launches, which    *)
(* writes the consumer's liveness record every KeepAliveTimeout/10 until   *)
(* StopAndWait cancels it.  For the reporters time is counted in units:    *)
(* a store command takes none, a thread that has something to do does it   *)
(* before time passes, and a liveness record leaves the key space when     *)
(* the expiry it was written with is over.                                 *)
(***************************************************************************)
EXTENDS Integers, Sequences, FiniteSets, TLC

\* ---------------------------------------------------------------- bounds
\* Number of entries the producer appends to the stream.
MaxItems == 2
\* Number of SetResult calls started, over all consumers and identifiers.
MaxCalls == 2

Consumers == {"c1", "c2"}
Results == {"A", "B"}

\* Delivery identifiers: the log assigns 1, 2, ... in the order of appending.
\* 0 stands for the empty identifier of a zero-value Message.
IDs == 1..MaxItems

Absent == "absent"

\* ---------------------------------------------------------- configuration
\* Line 89: the reporter ticks ten times per keep-alive interval.
Oversampling == 10
\* Line 108: the liveness record outlives two keep-alive intervals.
ExpiryFactor == 2
\* Durations are counted in a unit of three milliseconds: KeepAliveTimeout of
\* DefaultTestConsumerConfig (30 ms) is ten units.
TestKeepAliveTimeout == 10
\* The keep-alive intervals checked: a multiple of ten units and one that is
\* none, so that the division of line 89 rounds.
KeepAliveTimeouts == {TestKeepAliveTimeout, 15}

\* --------------------------------------------------------------- the codec
\* Marshallable[T]: the value "v1" is encoded as the two-element byte string
\* <<"enc", "v1">>; every other byte string fails to decode.
ZeroValue == ""

Marshal(v) == <<"enc", v>>

Unmarshal(data) ==
    IF Len(data) = 2 /\ data[1] = "enc"
    THEN [val |-> data[2], err |-> "none"]
    ELSE [val |-> ZeroValue, err |-> "unmarshal"]

\* What an entry holds under messageKey: a string (decodable or not), or
\* nothing (the field is missing, so the lookup yields a nil interface).
Payloads ==
    { [isStr |-> TRUE, data |-> Marshal("v1")],
      [isStr |-> TRUE, data |-> <<"garbage">>],
      [isStr |-> FALSE, data |-> <<>>] }

VARIABLES
    stream,         \* the entries appended so far: entry i has identifier i
    lastDelivered,  \* the group's last-delivered identifier
    pending,        \* the group's pending entries list: pairs <<id, consumer>>
    kv,             \* the key space: result record at key id, or Absent
    call,           \* per consumer: the SetResult call in progress, if any
    ret,            \* what the call that returned last handed to its caller
    started,        \* history: SetResult calls started per identifier
    overlap,        \* history: two SetResult calls for the identifier overlapped
    tried,          \* history: the results passed to SetResult for the identifier
    nilCount,       \* history: SetResult calls for the identifier that returned nil
    faulted,        \* history: a store command of a SetResult call for it failed
    vals,           \* history: the values ever stored at the key
    expired,        \* history: a record at the key has expired
    acks,           \* history: XAck commands issued per identifier
    retCount,       \* history: times Consume returned the identifier, per consumer
    KeepAliveTimeout, \* cfg.KeepAliveTimeout, the same for every consumer
    live,           \* the key space: time to live of the liveness record at
                    \* each heartbeat key, 0 when the key is absent
    reporter,       \* per consumer: its StopWaiter and its heartbeat thread
    failRun,        \* history: failed liveness writes since the last good one,
                    \* of a running reporter (cleared when its thread exits)
    wrote,          \* history: a liveness write of the consumer has succeeded
    elapsed,        \* history: time since the consumer's last tick returned
    age             \* history: time since its last successful liveness write

reporterVars ==
    <<KeepAliveTimeout, live, reporter, failRun, wrote, elapsed, age>>

vars == <<stream, lastDelivered, pending, kv, call, ret, started, overlap,
          tried, nilCount, faulted, vals, expired, acks, retCount,
          KeepAliveTimeout, live, reporter, failRun, wrote, elapsed, age>>

store == <<stream, lastDelivered, pending, kv>>

history == <<started, overlap, tried, nilCount, faulted, vals, expired, acks,
             retCount>>

\* ----------------------------------------------------------- return values
\* *Message[T]: a nil pointer, or a pointer to (ID, Value).
NilMessage == [ptr |-> FALSE, ID |-> 0, Value |-> ZeroValue]

\* Lines 152-155 with the identifier left out of the literal.
MessageNoID(id, value) == [ptr |-> TRUE, ID |-> 0, Value |-> value]

Message(id, value) == [ptr |-> TRUE, ID |-> id, Value |-> value]

\* A consumer keeps no state of its own between calls (the struct holds its
\* identity, the client and the configuration): call[c] is the position and
\* the local variables of a SetResult call between its two store commands.
IdleCall ==
    [pc |-> "idle", id |-> 0, result |-> Absent, seq |-> 0, acquired |-> FALSE]

\* No call has returned yet.
NoReturn ==
    [op |-> "none", by |-> "none", id |-> 0, result |-> Absent, seq |-> 0,
     err |-> "none", cause |-> "none", rsp |-> "none", msg |-> NilMessage]

\* Consume returned out; rsp tells what kind of reply its group read got.
ConsumeReturned(c, out, kind) ==
    [op |-> "Consume", by |-> c, id |-> 0, result |-> Absent, seq |-> 0,
     err |-> out.err, cause |-> out.cause, rsp |-> kind, msg |-> out.msg]

\* The n-th SetResult call for d returned err, which wraps cause.
SetResultReturned(c, d, r, n, err, cause) ==
    [op |-> "SetResult", by |-> c, id |-> d, result |-> r, seq |-> n,
     err |-> err, cause |-> cause, rsp |-> "none", msg |-> NilMessage]

\* ------------------------------------------------------------ heartbeat key
\* Lines 98-100 with the identity of one consumer in place of the argument.
heartBeatKeyShared(id) == "consumer:" \o "c1" \o ":heartbeat"

\* Lines 98-100.
heartBeatKey(id) == "consumer:" \o id \o ":heartbeat"

HeartBeatKeys == {heartBeatKey(c) : c \in Consumers}

\* The StopWaiter of a consumer that was constructed and not started: no
\* thread; the context is not cancelled; nobody is in StopAndWait.
NewReporter ==
    [pc |-> "new", timer |-> 0, cancelled |-> FALSE, stop |-> "none"]

\* ------------------------------------------------------------------- Init
\* The consumers after NewConsumer: nothing runs and no liveness record exists.
InitReporter ==
    /\ live = [k \in HeartBeatKeys |-> 0]
    /\ reporter = [c \in Consumers |-> NewReporter]
    /\ failRun = [c \in Consumers |-> 0]
    /\ wrote = [c \in Consumers |-> FALSE]
    /\ elapsed = [c \in Consumers |-> 0]
    /\ age = [c \in Consumers |-> 0]

InitStore ==
    /\ stream = <<>>
    /\ lastDelivered = 0
    /\ pending = {}
    /\ kv = [d \in IDs |-> Absent]
    /\ call = [c \in Consumers |-> IdleCall]
    /\ ret = NoReturn
    /\ started = [d \in IDs |-> 0]
    /\ overlap = [d \in IDs |-> FALSE]
    /\ tried = [d \in IDs |-> {}]
    /\ nilCount = [d \in IDs |-> 0]
    /\ faulted = [d \in IDs |-> FALSE]
    /\ vals = [d \in IDs |-> {}]
    /\ expired = [d \in IDs |-> FALSE]
    /\ acks = [d \in IDs |-> 0]
    /\ retCount = [d \in IDs |-> [c \in Consumers |-> 0]]

Init ==
    /\ InitStore
    /\ InitReporter
    /\ KeepAliveTimeout = TestKeepAliveTimeout

\* The same, for each of the keep-alive intervals.
InitAnyKeepAlive ==
    /\ InitStore
    /\ InitReporter
    /\ KeepAliveTimeout \in KeepAliveTimeouts

\* --------------------------------------------------------------- producer
\* The producer appends an entry; the log assigns the next identifier.
Produce ==
    /\ Len(stream) < MaxItems
    /\ \E p \in Payloads : stream' = Append(stream, p)
    /\ UNCHANGED <<lastDelivered, pending, kv, call, ret, history>>
    /\ UNCHANGED reporterVars

\* ------------------------------------------------------------------ store
\* An entry as the client sees it: redis.XMessage{ID, Values}.
XMessage(i) == [ID |-> i, Values |-> stream[i]]

\* The identifiers pending under consumer c, in increasing order.
RECURSIVE SortedSeq(_)
SortedSeq(S) ==
    IF S = {} THEN <<>>
    ELSE LET m == CHOOSE x \in S : \A y \in S : x <= y
         IN <<m>> \o SortedSeq(S \ {m})

OwnPending(c) == SortedSeq({d \in IDs : <<d, c>> \in pending})

Min(a, b) == IF a <= b THEN a ELSE b

\* The arguments of the group read of Consume.
XReadGroupArgsFromZero(c) ==
    [Group |-> "group", Consumer |-> c, Start |-> "0", Count |-> 1]

XReadGroupArgs(c) ==
    [Group |-> "group", Consumer |-> c, Start |-> ">", Count |-> 1]

\* XREADGROUP executed by the store.  With ">" it hands out entries never
\* delivered to the group (at most Count of them), or reports redis.Nil when
\* there is none after the block time; n is the number of entries it
\* delivers.  With an explicit identifier it replays the caller's own pending
\* entries after that identifier and delivers nothing new.
XReadGroupReply(args) ==
    IF args.Start = ">"
    THEN IF lastDelivered = Len(stream)
         THEN [kind |-> "served", err |-> "Nil", res |-> <<>>, n |-> 0]
         ELSE LET k == Min(args.Count, Len(stream) - lastDelivered)
              IN [kind |-> "served", err |-> "none",
                  res |-> << [j \in 1..k |-> XMessage(lastDelivered + j)] >>,
                  n |-> k]
    ELSE LET own == OwnPending(args.Consumer)
             k == Min(args.Count, Len(own))
         IN [kind |-> "served", err |-> "none",
             res |-> << [j \in 1..k |-> XMessage(own[j])] >>, n |-> 0]

\* Replies that break the protocol of a single-stream, Count 1 read: the
\* number of entries in each returned stream.  The entries are the next
\* undelivered ones, which the group then holds as delivered to the caller.
ShapeCounts == {0, 1, 2}

Shapes ==
    ({<<>>} \cup {<<a>> : a \in ShapeCounts}
            \cup {<<a, b>> : a \in ShapeCounts, b \in ShapeCounts}) \ {<<1>>}

ShapeTotal(sh) ==
    IF Len(sh) = 0 THEN 0 ELSE IF Len(sh) = 1 THEN sh[1] ELSE sh[1] + sh[2]

ShapeReply(sh) ==
    [kind |-> "malformed", err |-> "none",
     res |-> [s \in 1..Len(sh) |->
                [j \in 1..sh[s] |->
                   XMessage(lastDelivered + (IF s = 1 THEN 0 ELSE sh[1]) + j)]],
     n |-> ShapeTotal(sh)]

\* Every reply the client can get to its group read: the store's answer, a
\* failed round trip (the command is not executed), or a malformed answer.
XReadGroup(args) ==
    {XReadGroupReply(args)}
    \cup {[kind |-> "failed", err |-> "io", res |-> <<>>, n |-> 0]}
    \cup {ShapeReply(sh) : sh \in
            {x \in Shapes : ShapeTotal(x) <= Len(stream) - lastDelivered}}

\* ---------------------------------------------------------------- Consume
\* Line 135: the reply is not one stream holding one entry.
NoMessageAtAll(res) == Len(res) < 1 \/ Len(res[1]) < 1

NotSingleMessage(res) == Len(res) # 1 \/ Len(res[1]) # 1

\* Lines 129-155: what Consume returns for a reply (res, err) of the read.
ConsumeReturnErrFirst(reply) ==
    IF reply.err # "none"
    THEN [msg |-> NilMessage, err |-> "reading message", cause |-> reply.err]
    ELSE IF NotSingleMessage(reply.res)
    THEN [msg |-> NilMessage, err |-> "redis returned entries", cause |-> "none"]
    ELSE LET m == reply.res[1][1]
             u == Unmarshal(m.Values.data)
         IN IF ~m.Values.isStr
            THEN [msg |-> NilMessage, err |-> "casting request to string",
                  cause |-> "none"]
            ELSE IF u.err # "none"
            THEN [msg |-> NilMessage, err |-> "unmarshaling value",
                  cause |-> u.err]
            ELSE [msg |-> Message(m.ID, u.val), err |-> "nil", cause |-> "none"]

\* As ConsumeReturn, with the decoding errors of lines 140-149 dropped: the
\* call hands out what it has, a zero value, with a nil error.
ConsumeReturnDecodeErrDropped(reply) ==
    IF reply.err = "Nil"
    THEN [msg |-> NilMessage, err |-> "nil", cause |-> "none"]
    ELSE IF reply.err # "none"
    THEN [msg |-> NilMessage, err |-> "reading message", cause |-> reply.err]
    ELSE IF NotSingleMessage(reply.res)
    THEN [msg |-> NilMessage, err |-> "redis returned entries", cause |-> "none"]
    ELSE LET m == reply.res[1][1]
             u == IF m.Values.isStr THEN Unmarshal(m.Values.data)
                  ELSE [val |-> ZeroValue, err |-> "cast"]
         IN [msg |-> Message(m.ID, u.val), err |-> "nil", cause |-> "none"]

ConsumeReturn(reply) ==
    IF reply.err = "Nil"
    THEN [msg |-> NilMessage, err |-> "nil", cause |-> "none"]
    ELSE IF reply.err # "none"
    THEN [msg |-> NilMessage, err |-> "reading message", cause |-> reply.err]
    ELSE IF NotSingleMessage(reply.res)
    THEN [msg |-> NilMessage, err |-> "redis returned entries", cause |-> "none"]
    ELSE LET m == reply.res[1][1]
             value == m.Values
         IN IF ~value.isStr
            THEN [msg |-> NilMessage, err |-> "casting request to string",
                  cause |-> "none"]
            ELSE LET u == Unmarshal(value.data)
                 IN IF u.err # "none"
                    THEN [msg |-> NilMessage, err |-> "unmarshaling value",
                          cause |-> u.err]
                    ELSE [msg |-> Message(m.ID, u.val), err |-> "nil",
                          cause |-> "none"]

\* Consume: one group read, then the decoding of the entry read.
Consume(c) ==
    /\ call[c].pc = "idle"
    /\ \E reply \in XReadGroup(XReadGroupArgs(c)) :
         LET out == ConsumeReturn(reply)
         IN /\ lastDelivered' = lastDelivered + reply.n
            /\ pending' = pending \cup
                 {<<d, c>> : d \in (lastDelivered + 1)..(lastDelivered + reply.n)}
            /\ ret' = ConsumeReturned(c, out, reply.kind)
            /\ retCount' = IF out.msg.ptr
                           THEN [retCount EXCEPT ![out.msg.ID][c] = @ + 1]
                           ELSE retCount
    /\ UNCHANGED <<stream, kv, call, started, overlap, tried, nilCount, faulted, vals,
                   expired, acks>>
    /\ UNCHANGED reporterVars

\* -------------------------------------------------------------- SetResult
\* SETNX key value with the response entry timeout, executed by the store:
\* the write happens only when the key is absent; or the round trip fails
\* and nothing is written.  kv is the key space afterwards.
SetExec(key, value) ==
    { [acquired |-> TRUE, err |-> "none", kv |-> [kv EXCEPT ![key] = value]],
      [acquired |-> FALSE, err |-> "io", kv |-> kv] }

SetNX(key, value) ==
    { IF kv[key] = Absent
      THEN [acquired |-> TRUE, err |-> "none", kv |-> [kv EXCEPT ![key] = value]]
      ELSE [acquired |-> FALSE, err |-> "none", kv |-> kv],
      [acquired |-> FALSE, err |-> "io", kv |-> kv] }

\* XACK stream group id, executed by the store: the entry leaves the pending
\* entries list, whoever holds it; or the round trip fails.
XAck(id) ==
    { [err |-> "none", pending |-> {p \in pending : p[1] # id}],
      [err |-> "io", pending |-> pending] }

\* Lines 163-166: what SetResult returns after the acknowledge.
AckReturnIgnoringError(err) == "nil"

AckReturn(err) == IF err # "none" THEN "acking message" ELSE "nil"

\* Line 160: the test that makes SetResult return without acknowledging.
SetResultFailsOnBoth(acquired, err) == err # "none" /\ ~acquired

SetResultFailsOnDuplicateOnly(acquired, err) == err = "none" /\ ~acquired

SetResultFails(acquired, err) == err # "none" \/ ~acquired

\* SetResult calls started so far.
RECURSIVE Total(_, _)
Total(f, S) ==
    IF S = {} THEN 0
    ELSE LET x == CHOOSE y \in S : TRUE IN f[x] + Total(f, S \ {x})

\* SetResult(ctx, d, r), lines 159-162: the create-only write, and the return
\* when it did not succeed.  The caller passes an identifier the group has
\* delivered (to this consumer or to another one).
SetResultSetNX(c) ==
    /\ call[c].pc = "idle"
    /\ Total(started, IDs) < MaxCalls
    /\ \E d \in 1..lastDelivered, r \in Results :
         \E reply \in SetNX(d, r) :
            /\ kv' = reply.kv
            /\ vals' = [vals EXCEPT ![d] =
                 IF reply.kv[d] # kv[d] THEN @ \cup {reply.kv[d]} ELSE @]
            /\ faulted' = [faulted EXCEPT ![d] = @ \/ reply.err # "none"]
            /\ started' = [started EXCEPT ![d] = @ + 1]
            /\ tried' = [tried EXCEPT ![d] = @ \cup {r}]
            /\ overlap' = [overlap EXCEPT ![d] =
                 @ \/ \E o \in Consumers \ {c} :
                        call[o].pc # "idle" /\ call[o].id = d]
            /\ IF SetResultFails(reply.acquired, reply.err)
               THEN /\ ret' = SetResultReturned(c, d, r, started[d] + 1,
                                                "setting result", reply.err)
                    /\ call' = call
               ELSE /\ call' = [call EXCEPT ![c] =
                         [pc |-> "xack", id |-> d, result |-> r,
                          seq |-> started[d] + 1, acquired |-> reply.acquired]]
                    /\ ret' = ret
    /\ UNCHANGED <<stream, lastDelivered, pending, nilCount, expired, acks,
                   retCount>>
    /\ UNCHANGED reporterVars

\* Lines 163-166: the acknowledge, and the return.
SetResultXAck(c) ==
    /\ call[c].pc = "xack"
    /\ LET d == call[c].id
       IN \E reply \in XAck(d) :
            /\ pending' = reply.pending
            /\ acks' = [acks EXCEPT ![d] = @ + 1]
            /\ faulted' = [faulted EXCEPT ![d] = @ \/ reply.err # "none"]
            /\ nilCount' = [nilCount EXCEPT ![d] =
                 IF AckReturn(reply.err) = "nil" THEN @ + 1 ELSE @]
            /\ ret' = SetResultReturned(c, d, call[c].result, call[c].seq,
                                        AckReturn(reply.err), reply.err)
            /\ call' = [call EXCEPT ![c] = IdleCall]
    /\ UNCHANGED <<stream, lastDelivered, kv, started, overlap, tried, vals,
                   expired, retCount>>
    /\ UNCHANGED reporterVars

\* The result record at key d reaches its response entry timeout: the
\* configured timeout is positive (an hour in DefaultConsumerConfig, a minute
\* in DefaultTestConsumerConfig), and nothing bounds the time between calls.
Expire(d) ==
    /\ kv[d] # Absent
    /\ kv' = [kv EXCEPT ![d] = Absent]
    /\ expired' = [expired EXCEPT ![d] = TRUE]
    /\ UNCHANGED <<stream, lastDelivered, pending, call, ret, started, overlap,
                   tried, nilCount, faulted, vals, acks, retCount>>
    /\ UNCHANGED reporterVars

\* --------------------------------------------------------------- reporter
\* What no step of a reporter touches: the stream, the group, the result
\* records, the foreground calls and their histories.
calls ==
    <<stream, lastDelivered, pending, kv, call, ret, started, overlap, tried,
      nilCount, faulted, vals, expired, acks, retCount>>

\* Line 89 without the division: a tick per keep-alive interval.
TickIntervalWhole(K) == K

\* Line 89: the wait the iteration asks for (Duration is an integer: the
\* division truncates).
TickInterval(K) == K \div Oversampling

\* Line 108 without the factor: the record lives one keep-alive interval.
HeartBeatExpiryOnce(K) == K

\* Line 108: the expiry heartBeat passes to Set.
HeartBeatExpiry(K) == ExpiryFactor * K

\* Line 108 with the expiry left out: the record is given no time to live
\* (-1) and stays until it is written again.
SetPersist(key, expiration) ==
    { [err |-> "none", live |-> [live EXCEPT ![key] = -1]],
      [err |-> "io", live |-> live] }

\* SET key value PX expiration, executed by the store: the record is written
\* over whatever the key holds and lives for expiration; or the round trip
\* fails and nothing is written.  (The value, the wall-clock time of the
\* write, is not kept: live holds the time the record has left.)
Set(key, expiration) ==
    { [err |-> "none", live |-> [live EXCEPT ![key] = expiration]],
      [err |-> "io", live |-> live] }

\* A loop that gives up when the write of its iteration failed.
IterationExitsOnError(cancelled, err) == cancelled \/ err # "none"

\* The loop of CallIteratively after an iteration returned: it leaves when its
\* context is cancelled, whatever the iteration did (heartBeat returns
\* nothing: lines 109-114 only log the error of the write).
IterationExits(cancelled, err) == cancelled

\* The ticks that fit into the life of a record: failRun counts no further.
RunCap == ExpiryFactor * Oversampling

\* Start, lines 84-92: the StopWaiter is started and the thread launched; its
\* first iteration runs at once.
Start(c) ==
    /\ reporter[c].pc = "new"
    /\ reporter' = [reporter EXCEPT ![c].pc = "beat"]
    /\ elapsed' = [elapsed EXCEPT ![c] = 0]
    /\ UNCHANGED <<KeepAliveTimeout, live, failRun, wrote, age>>
    /\ UNCHANGED calls

\* One iteration, lines 87-90 and 107-115: heartBeat writes the liveness
\* record once; then the loop leaves, or runs again at once (interval zero),
\* or waits for the interval.
heartBeat(c) ==
    /\ reporter[c].pc = "beat"
    /\ \E reply \in Set(heartBeatKey(c), HeartBeatExpiry(KeepAliveTimeout)) :
         LET interval == TickInterval(KeepAliveTimeout)
             exits == IterationExits(reporter[c].cancelled, reply.err)
             run == IF reply.err = "none" \/ exits THEN 0
                    ELSE Min(failRun[c] + 1, RunCap)
         IN /\ live' = reply.live
            /\ failRun' = [failRun EXCEPT ![c] = run]
            /\ wrote' = [wrote EXCEPT ![c] = @ \/ reply.err = "none"]
            /\ age' = [age EXCEPT ![c] = IF reply.err = "none" THEN 0 ELSE @]
            /\ elapsed' = [elapsed EXCEPT ![c] = 0]
            /\ reporter' = [reporter EXCEPT
                 ![c].pc = IF exits
                           THEN "done"
                           ELSE IF interval = 0 THEN "beat" ELSE "sleep",
                 ![c].timer = interval]
    /\ UNCHANGED KeepAliveTimeout
    /\ UNCHANGED calls

\* The timer of the wait fires: the next iteration starts.
TimerFires(c) ==
    /\ reporter[c].pc = "sleep"
    /\ reporter[c].timer = 0
    /\ reporter' = [reporter EXCEPT ![c].pc = "beat"]
    /\ UNCHANGED <<KeepAliveTimeout, live, failRun, wrote, elapsed, age>>
    /\ UNCHANGED calls

\* The waiting thread sees its context cancelled and exits.
ObserveCancel(c) ==
    /\ reporter[c].pc = "sleep"
    /\ reporter[c].cancelled
    /\ reporter' = [reporter EXCEPT ![c].pc = "done"]
    /\ failRun' = [failRun EXCEPT ![c] = 0]
    /\ UNCHANGED <<KeepAliveTimeout, live, wrote, elapsed, age>>
    /\ UNCHANGED calls

\* A stop that cancels and does not wait.
TaskExitedOrNot(c) == TRUE

\* What StopAndWait waits for: the thread has exited.
TaskExited(c) == reporter[c].pc = "done"

\* StopAndWait, lines 94-96, on a started consumer: the context is cancelled
\* and the caller blocks.
StopAndWait(c) ==
    /\ reporter[c].pc # "new"
    /\ reporter[c].stop = "none"
    /\ reporter' = [reporter EXCEPT ![c].cancelled = TRUE, ![c].stop = "waiting"]
    /\ UNCHANGED <<KeepAliveTimeout, live, failRun, wrote, elapsed, age>>
    /\ UNCHANGED calls

\* StopAndWait returns.
StopAndWaitReturns(c) ==
    /\ reporter[c].stop = "waiting"
    /\ TaskExited(c)
    /\ reporter' = [reporter EXCEPT ![c].stop = "returned"]
    /\ UNCHANGED <<KeepAliveTimeout, live, failRun, wrote, elapsed, age>>
    /\ UNCHANGED calls

\* A thread has something to do now: an iteration to run (a store write takes
\* no time), or a timer that is due.
Due(c) ==
    \/ reporter[c].pc = "beat"
    \/ reporter[c].pc = "sleep" /\ reporter[c].timer = 0

\* One unit of time passes: the timers of the waiting threads and the
\* liveness records run down; a record whose time is up leaves the key space.
Advance ==
    /\ \A c \in Consumers : ~Due(c)
    /\ \/ \E k \in HeartBeatKeys : live[k] > 0
       \/ \E c \in Consumers : reporter[c].pc = "sleep"
    /\ live' = [k \in HeartBeatKeys |-> IF live[k] > 0 THEN live[k] - 1 ELSE 0]
    /\ reporter' = [c \in Consumers |->
         IF reporter[c].pc = "sleep"
         THEN [reporter[c] EXCEPT !.timer = @ - 1]
         ELSE reporter[c]]
    /\ elapsed' = [c \in Consumers |->
         IF reporter[c].pc \in {"beat", "sleep"} THEN elapsed[c] + 1
         ELSE elapsed[c]]
    /\ age' = [c \in Consumers |->
         IF wrote[c]
         THEN Min(age[c] + 1, HeartBeatExpiry(KeepAliveTimeout))
         ELSE age[c]]
    /\ UNCHANGED <<KeepAliveTimeout, failRun, wrote>>
    /\ UNCHANGED calls

\* ---------------------------------------------------------- specification
Next ==
    \/ Produce
    \/ \E c \in Consumers : Consume(c)
    \/ \E c \in Consumers : SetResultSetNX(c)
    \/ \E c \in Consumers : SetResultXAck(c)
    \/ \E d \in IDs : Expire(d)

Spec == Init /\ [][Next]_vars

\* ------------------------------------------------------------- scheduling
\* A Consume call of c whose group read the store answers.
ConsumeServed(c) == Consume(c) /\ ret'.rsp = "served"

\* The reading side alone: the producer and the Consume calls.  SetResult and
\* the expiry of result records touch neither the stream nor the group's
\* last-delivered identifier, which are all a group read depends on.
ReadNext ==
    \/ Produce
    \/ \E c \in Consumers : Consume(c)

\* The callers keep calling Consume (the fast poll of line 129 is meant to be
\* called in a loop), and the store answers the reads of each caller again
\* and again.
LiveSpec ==
    /\ Init
    /\ [][ReadNext]_vars
    /\ \A c \in Consumers : SF_vars(ConsumeServed(c))

\* The reporters alone, for each keep-alive interval.
ReporterNext ==
    \/ \E c \in Consumers : Start(c)
    \/ \E c \in Consumers : heartBeat(c)
    \/ \E c \in Consumers : TimerFires(c)
    \/ \E c \in Consumers : ObserveCancel(c)
    \/ \E c \in Consumers : StopAndWait(c)
    \/ \E c \in Consumers : StopAndWaitReturns(c)
    \/ Advance

\* A launched thread runs, a due timer fires, a cancelled wait ends, the
\* caller of StopAndWait is woken, and time passes.  Whether and when Start
\* and StopAndWait are called is up to the caller.
ReporterSpec ==
    /\ InitAnyKeepAlive
    /\ [][ReporterNext]_vars
    /\ \A c \in Consumers :
         /\ WF_vars(heartBeat(c))
         /\ WF_vars(TimerFires(c))
         /\ WF_vars(ObserveCancel(c))
         /\ WF_vars(StopAndWaitReturns(c))
    /\ WF_vars(Advance)

\* The reporters beside the foreground calls, within one tick interval: the
\* consumers are started and stopped and their first ticks run while one
\* entry is produced, consumed and given a result; no timer runs out.
FrameNext ==
    \/ \E c \in Consumers : Start(c)
    \/ \E c \in Consumers : heartBeat(c)
    \/ \E c \in Consumers : ObserveCancel(c)
    \/ \E c \in Consumers : StopAndWait(c)
    \/ \E c \in Consumers : StopAndWaitReturns(c)
    \/ Len(stream) = 0 /\ Produce
    \/ \E c \in Consumers : Consume(c)
    \/ Total(started, IDs) = 0 /\ \E c \in Consumers : SetResultSetNX(c)
    \/ \E c \in Consumers : SetResultXAck(c)
    \/ \E d \in IDs : Expire(d)

FrameSpec == Init /\ [][FrameNext]_vars

\* ================================================================ claims
Delivered(d) == d <= lastDelivered

\* The consumers the identifier is pending under.
Owners(d) == {c \in Consumers : <<d, c>> \in pending}

\* Acknowledged in the stream/group: delivered and no longer pending.
Acknowledged(d) == Delivered(d) /\ Owners(d) = {}

\* A SetResult call for d is between its write and its acknowledge.
InProgress(d) == \E c \in Consumers : call[c].pc = "xack" /\ call[c].id = d

\* The step is the XAck of consumer c's call for d.
AckStep(c, d) ==
    /\ call[c].pc = "xack"
    /\ call[c].id = d
    /\ call'[c].pc = "idle"
    /\ acks'[d] = acks[d] + 1

\* ------------------------------------------------------------------- C1
\* C1: an XAck for D is issued only by a SetResult call whose own SetNX at
\* key D has succeeded, and never before some result for D has been written.
C1_AckOnlyAfterOwnWrite ==
    /\ [](\A d \in IDs : acks[d] > 0 => vals[d] # {})
    /\ [][\A d \in IDs :
            acks'[d] # acks[d] =>
              \E c \in Consumers :
                /\ AckStep(c, d)
                /\ call[c].acquired
                /\ call[c].result \in vals[d]]_vars

\* An acknowledge has been issued and its call returned nil, in a run where a
\* store command for the same identifier failed.
C1_Witness ==
    /\ ret.op = "SetResult" /\ ret.err = "nil"
    /\ acks[ret.id] > 0
    /\ faulted[ret.id]

\* ------------------------------------------------------------------- C2
\* C2 as stated: whenever D is acknowledged, a result record is present at
\* key D.
C2_AckedHasResult ==
    \A d \in IDs : Acknowledged(d) => kv[d] # Absent

\* C2 amended: whenever D is acknowledged, a result has been written at key
\* D, and the record is still present unless it has expired.
C2_AckedHadResult ==
    \A d \in IDs :
        Acknowledged(d) => vals[d] # {} /\ (kv[d] # Absent \/ expired[d])

C2_Witness ==
    \E d \in IDs : Acknowledged(d) /\ kv[d] # Absent /\ ~expired[d]

\* ------------------------------------------------------------------- C3
\* C3 as stated: at most one result value is ever stored at key D.
C3_OneValueEver ==
    \A d \in IDs : Cardinality(vals[d]) <= 1

\* C3 amended: while a record is present at key D no step stores another
\* value there, and it leaves the key only by expiring; until a record of D
\* has expired, one value at most has been stored at D.
C3_NoOverwrite ==
    /\ [](\A d \in IDs : ~expired[d] => Cardinality(vals[d]) <= 1)
    /\ [][\A d \in IDs :
            kv[d] # Absent =>
              \/ kv'[d] = kv[d]
              \/ kv'[d] = Absent /\ expired'[d] /\ call' = call /\ ret' = ret]_vars

\* A SetResult call met a record holding another value and left it alone.
C3_Witness ==
    /\ ret.op = "SetResult" /\ ret.err = "setting result" /\ ret.cause = "none"
    /\ kv[ret.id] # Absent
    /\ kv[ret.id] # ret.result
    /\ ~expired[ret.id]

\* ------------------------------------------------------------------- C4
\* Exactly two SetResult calls were made for d, with different results, they
\* overlapped, and both have returned.
TwoConcurrent(d) ==
    /\ started[d] = 2
    /\ overlap[d]
    /\ tried[d] = Results
    /\ ~InProgress(d)

\* C4 as stated: after two concurrent SetResult calls for D, exactly one of
\* the two results is stored at D and exactly one caller got nil.
C4_ExactlyOneWins ==
    \A d \in IDs :
        TwoConcurrent(d) /\ ~expired[d] =>
            /\ kv[d] # Absent
            /\ Cardinality(vals[d]) = 1
            /\ nilCount[d] = 1

\* C4 amended: after two concurrent SetResult calls for D, with no expiry of
\* the record, at most one result is stored and at most one caller got nil;
\* exactly one of each when no store command of the two calls failed.
C4_AtMostOneWins ==
    \A d \in IDs :
        TwoConcurrent(d) /\ ~expired[d] =>
            /\ Cardinality(vals[d]) <= 1
            /\ nilCount[d] <= 1
            /\ ~faulted[d] =>
                 /\ kv[d] # Absent
                 /\ Cardinality(vals[d]) = 1
                 /\ nilCount[d] = 1

\* The race is over: the winner returned last, and its result is stored.
C4_Witness ==
    /\ ret.op = "SetResult" /\ ret.err = "nil"
    /\ TwoConcurrent(ret.id)
    /\ ~expired[ret.id] /\ ~faulted[ret.id]
    /\ kv[ret.id] = ret.result
    /\ vals[ret.id] = {ret.result}
    /\ nilCount[ret.id] = 1

\* ------------------------------------------------------------------- C5
\* Exactly two SetResult calls were made for d, one after the other.
TwoSequential(d) == started[d] = 2 /\ ~overlap[d] /\ ~InProgress(d)

\* The call that returned last is the second call for d.
SecondReturned(d) == ret.op = "SetResult" /\ ret.id = d /\ ret.seq = 2

\* C5 as stated: of two SetResult calls for D, exactly one returns nil, and
\* the second returns an error and performs no acknowledge.
C5_SecondCallFails ==
    \A d \in IDs :
        TwoSequential(d) /\ ~expired[d] =>
            /\ nilCount[d] = 1
            /\ acks[d] = 1
            /\ SecondReturned(d) => ret.err = "setting result"

\* C5 amended: of two SetResult calls for D, with no expiry of the record in
\* between, at most one returns nil; when no store command of the two calls
\* failed, exactly the first returns nil, and the second returns an error and
\* performs no acknowledge.
C5_AtMostOneSucceeds ==
    \A d \in IDs :
        TwoSequential(d) /\ ~expired[d] =>
            /\ nilCount[d] <= 1
            /\ ~faulted[d] =>
                 /\ nilCount[d] = 1
                 /\ acks[d] = 1
                 /\ SecondReturned(d) =>
                      ret.err = "setting result" /\ ret.cause = "none"

C5_Witness ==
    \E d \in IDs :
        /\ TwoSequential(d) /\ ~expired[d] /\ ~faulted[d]
        /\ SecondReturned(d)
        /\ ret.err = "setting result"
        /\ nilCount[d] = 1 /\ acks[d] = 1

\* ------------------------------------------------------------------- C6
\* The step starts a SetResult call for d whose create-only write does not
\* succeed: no call comes out of it holding acquired = TRUE.
WriteNotSucceeded(d) ==
    /\ started'[d] = started[d] + 1
    /\ ~\E c \in Consumers :
          call[c].pc = "idle" /\ call'[c].pc = "xack" /\ call'[c].acquired

\* C6: when the create-only write does not succeed, SetResult returns an
\* error at once, issues no acknowledge, and leaves the stored result and the
\* pending set unchanged.
C6_FailedWriteNoAck ==
    [][\A d \in IDs :
         WriteNotSucceeded(d) =>
           /\ ret'.op = "SetResult" /\ ret'.id = d
           /\ ret'.err = "setting result"
           /\ call' = call
           /\ acks' = acks
           /\ kv' = kv
           /\ pending' = pending]_vars

\* A duplicate SetResult call returned its error: the record of the first
\* writer is in place and the identifier is still pending.
C6_Witness ==
    /\ ret.op = "SetResult" /\ ret.err = "setting result" /\ ret.cause = "none"
    /\ kv[ret.id] # Absent
    /\ Owners(ret.id) # {}
    /\ acks[ret.id] = 0

\* ------------------------------------------------------------------- C7
\* The step is an XAck of consumer c that the store failed.
AckFailedStep(c) ==
    /\ call[c].pc = "xack"
    /\ call'[c].pc = "idle"
    /\ ret'.op = "SetResult" /\ ret'.by = c /\ ret'.cause = "io"

\* The call that returned last is a SetResult whose acknowledge failed.
AckFailedReturn == ret.op = "SetResult" /\ ret.err = "acking message"

\* C7: when the write succeeds and the acknowledge fails, SetResult returns an
\* error, the result it wrote stays stored and D stays pending.
C7_AckFailureKeepsResult ==
    /\ [][\A c \in Consumers :
            AckFailedStep(c) =>
              /\ ret'.err = "acking message"
              /\ ret'.id = call[c].id
              /\ kv' = kv
              /\ pending' = pending]_vars
    /\ [](AckFailedReturn /\ ~expired[ret.id] =>
            kv[ret.id] = ret.result /\ Owners(ret.id) # {})

C7_Witness ==
    /\ AckFailedReturn
    /\ ret.cause = "io"
    /\ kv[ret.id] = ret.result
    /\ Owners(ret.id) # {}

\* ------------------------------------------------------------------- C8
\* Times Consume calls have returned the entry d.
Returns(d) == Total(retCount[d], Consumers)

NoNewItem == lastDelivered = Len(stream)

AbsentNoError(r) == ~r.msg.ptr /\ r.err = "nil"

\* The step is a Consume call (one that repeats the last return and delivers
\* nothing changes no variable).
ConsumeStep ==
    ret'.op = "Consume" /\ (ret' # ret \/ lastDelivered' # lastDelivered)

\* C9 as stated: when the stream holds no never-delivered entry, Consume
\* returns absent with a nil error and changes nothing in the store (stated
\* here for the replies of a store that keeps to the protocol of the read).
C9_EmptyGivesAbsent ==
    [][ConsumeStep /\ NoNewItem /\ ret'.rsp # "malformed" =>
         AbsentNoError(ret') /\ store' = store]_vars

\* C9 amended: when the stream holds no never-delivered entry, Consume changes
\* nothing in the store and returns no message: absent with a nil error when
\* the store answers the read (it reports no data), an error when the read
\* fails or its reply has an unexpected shape.  Absent with a nil error is
\* returned in no other case, and never a message with an error or a
\* zero-value message.
C9_NoDataGivesAbsent ==
    /\ [][ConsumeStep /\ NoNewItem =>
            /\ store' = store
            /\ ~ret'.msg.ptr
            /\ ret'.rsp = "served" => AbsentNoError(ret')
            /\ ret'.rsp # "served" => ret'.err # "nil"]_vars
    /\ [][ConsumeStep /\ AbsentNoError(ret') =>
            NoNewItem /\ store' = store]_vars
    /\ [](ret.op = "Consume" =>
            /\ ~(ret.msg.ptr /\ ret.err # "nil")
            /\ ret.msg.ptr => ret.msg.ID \in 1..lastDelivered)

\* Consume found the stream drained and returned absent, nil.
C9_Witness ==
    /\ ret.op = "Consume" /\ ret.rsp = "served"
    /\ AbsentNoError(ret)
    /\ NoNewItem
    /\ lastDelivered > 0

\* ------------------------------------------------------------------ C10
\* A reply without error that is not one stream holding one entry.
BadShape(reply) ==
    reply.err = "none" /\ ~(Len(reply.res) = 1 /\ Len(reply.res[1]) = 1)

\* C10: for every reply of the group read that is not one stream holding one
\* entry, Consume returns an error and no message.
C10_BadShapeIsError ==
    /\ \A c \in Consumers :
         \A reply \in XReadGroup(XReadGroupArgs(c)) :
            BadShape(reply) =>
              /\ ConsumeReturn(reply).err = "redis returned entries"
              /\ ~ConsumeReturn(reply).msg.ptr
    /\ ret.op = "Consume" /\ ret.rsp = "malformed" =>
         ret.err = "redis returned entries" /\ ~ret.msg.ptr

\* A reply carrying both entries reached Consume, which returned the error;
\* the two entries are pending under the caller and were returned to nobody.
C10_Witness ==
    /\ ret.op = "Consume" /\ ret.rsp = "malformed"
    /\ ret.err = "redis returned entries"
    /\ Owners(1) = {ret.by} /\ Owners(2) = {ret.by}
    /\ Returns(1) = 0 /\ Returns(2) = 0

\* ------------------------------------------------------------------ C11
\* The payload decodes: it is a string and the codec accepts it.
Decodable(p) == p.isStr /\ Unmarshal(p.data).err = "none"

\* The entry d was delivered to a Consume call that returned an error: the
\* group holds it as delivered and no call has returned it.
ReadFailed(d) == Delivered(d) /\ Returns(d) = 0

DecodeErrors == {"casting request to string", "unmarshaling value"}

\* The step is a Consume call to which the store delivers the one entry d.
ReadStep(d) ==
    /\ ConsumeStep
    /\ ret'.rsp = "served"
    /\ d = lastDelivered + 1
    /\ lastDelivered' = d

\* C11: when the entry read by Consume cannot be decoded (its payload is no
\* string, or Unmarshal fails), Consume returns an error and no message,
\* acknowledges nothing and writes no result: the entry is pending under the
\* reading consumer and has been returned to nobody.
C11_DecodeFailureLeavesPending ==
    /\ [][\A d \in IDs :
            ReadStep(d) /\ ~Decodable(stream[d]) =>
              /\ ret'.err \in DecodeErrors
              /\ ret'.err = "casting request to string" <=> ~stream[d].isStr
              /\ ~ret'.msg.ptr
              /\ kv' = kv /\ vals' = vals
              /\ acks' = acks
              /\ retCount' = retCount
              /\ pending' = pending \cup {<<d, ret'.by>>}]_vars
    /\ [](ret.op = "Consume" /\ ret.err \in DecodeErrors =>
            /\ ~ret.msg.ptr
            /\ ~Decodable(stream[lastDelivered])
            /\ Returns(lastDelivered) = 0
            /\ acks[lastDelivered] = 0 => Owners(lastDelivered) = {ret.by})

\* Both decode failures have happened: the first entry failed in Unmarshal,
\* the second is no string; both are pending and no result was written.
C11_Witness ==
    /\ ret.op = "Consume" /\ ret.err = "casting request to string"
    /\ lastDelivered = 2
    /\ stream[1].isStr /\ ~Decodable(stream[1])
    /\ Owners(1) # {} /\ Owners(2) = {ret.by}
    /\ Returns(1) = 0 /\ Returns(2) = 0
    /\ \A d \in IDs : kv[d] = Absent /\ acks[d] = 0

\* ------------------------------------------------------------------ C12
\* What a Consume call returns for the entry d when it decodes.
Decoded(d) == Message(d, Unmarshal(stream[d].data).val)

\* The entry d is in the stream, decodes, and no group read has delivered it.
Unread(d) == d <= Len(stream) /\ Decodable(stream[d]) /\ ~Delivered(d)

\* Every message handed out carries the identifier the log assigned to a
\* delivered entry, never the empty one, and the decoding of its payload.
ReturnsDecoded ==
    ret.op = "Consume" /\ ret.msg.ptr =>
        /\ ret.err = "nil"
        /\ ret.msg.ID \in 1..lastDelivered
        /\ Decodable(stream[ret.msg.ID])
        /\ ret.msg = Decoded(ret.msg.ID)
        /\ ret.msg.Value = "v1"

\* C12 as stated: a Consume call made before anything is produced returns
\* absent with a nil error; a produced decodable entry that no consumer has
\* read is eventually returned by a Consume call, with its identifier and its
\* decoded value (stated here for the replies of a store that keeps to the
\* protocol of the read).
C12_ProducedIsReturned ==
    /\ [][ConsumeStep /\ Len(stream) = 0 /\ ret'.rsp # "malformed" =>
            AbsentNoError(ret')]_vars
    /\ \A d \in IDs : Unread(d) ~> Returns(d) = 1
    /\ []ReturnsDecoded

\* C12 amended: a Consume call made before anything is produced, whose group
\* read the store answers, returns absent with a nil error.  A produced
\* decodable entry that no consumer has read is eventually delivered to a
\* Consume call; the call returns it, with its identifier and its decoded
\* value, when the reply is the store's answer of one entry, and an error for
\* a reply of another shape, after which no call returns the entry.
C12_ProducedIsDelivered ==
    /\ [][ConsumeStep /\ Len(stream) = 0 /\ ret'.rsp = "served" =>
            AbsentNoError(ret') /\ store' = store]_vars
    /\ \A d \in IDs : Unread(d) ~> (Returns(d) = 1 \/ ReadFailed(d))
    /\ [][\A d \in IDs :
            ReadStep(d) /\ Decodable(stream[d]) =>
              /\ ret'.err = "nil"
              /\ ret'.msg = Decoded(d)
              /\ retCount'[d][ret'.by] = 1]_vars
    /\ []ReturnsDecoded

\* The scenario: the stream was empty, a call returned absent and nil, one
\* entry was produced, and the next call of the same consumer returned it.
C12_Witness ==
    /\ ret.op = "Consume" /\ ret.err = "nil"
    /\ ret.msg = Message(1, "v1")
    /\ Len(stream) = 1 /\ lastDelivered = 1
    /\ Owners(1) = {ret.by}
    /\ retCount[1][ret.by] = 1

\* ------------------------------------------------------------------ C13
\* The step is a heartbeat tick of consumer c: one iteration of its thread.
BeatStep(c) == reporter[c].pc = "beat" /\ reporter'[c].pc # "beat"

\* The liveness write of the tick succeeded, or failed.
BeatWrote(c) == BeatStep(c) /\ wrote'[c] /\ age'[c] = 0

BeatFailed(c) == BeatStep(c) /\ ~BeatWrote(c)

\* A tick of c has returned since it was started.
Ticked(c) == wrote[c] \/ failRun[c] > 0 \/ reporter[c].pc = "done"

\* C13: for every keep-alive interval K, a tick writes the liveness record
\* at the consumer's heartbeat key with expiry 2K exactly, the next tick comes
\* K/10 after the tick before it returned, and the first tick runs when the
\* reporter is started.
C13_ExpiryAndPeriod ==
    /\ [][\A c \in Consumers :
            BeatStep(c) =>
              /\ BeatWrote(c) => live'[heartBeatKey(c)] = 2 * KeepAliveTimeout
              /\ BeatFailed(c) => live'[heartBeatKey(c)] = live[heartBeatKey(c)]
              /\ reporter'[c].pc = "sleep" =>
                    reporter'[c].timer = KeepAliveTimeout \div 10]_vars
    /\ [][\A c \in Consumers :
            reporter[c].pc = "new" /\ reporter'[c].pc # "new" =>
              reporter'[c].pc = "beat" /\ elapsed'[c] = 0]_vars
    /\ [](\A c \in Consumers :
            reporter[c].pc = "beat" =>
              elapsed[c] = IF Ticked(c) THEN KeepAliveTimeout \div 10 ELSE 0)
    /\ [](\A c \in Consumers :
            /\ live[heartBeatKey(c)] <= 2 * KeepAliveTimeout
            /\ reporter[c].pc = "sleep" =>
                  elapsed[c] + reporter[c].timer = KeepAliveTimeout \div 10)

\* With an interval that is no multiple of ten: the second tick of a
\* reporter has just written the record, thirty units to live, one unit
\* after its first tick; the record of the other consumer is a unit older.
C13_Witness ==
    \E c \in Consumers :
        /\ KeepAliveTimeout = 15
        /\ reporter[c].pc = "sleep" /\ reporter[c].timer = 1
        /\ live[heartBeatKey(c)] = 30
        /\ age[c] = 0 /\ failRun[c] = 0
        /\ \E o \in Consumers \ {c} :
             live[heartBeatKey(o)] = 29 /\ reporter[o].pc = "done"

\* ------------------------------------------------------------------ C14
\* The reporter of c is started and not stopped.
Running(c) == reporter[c].pc \in {"beat", "sleep"} /\ ~reporter[c].cancelled

\* C14: a tick whose write fails does not stop the reporter and writes once
\* only: the thread waits K/10 and ticks again; while the consumer is not
\* stopped a tick follows every tick.
C14_FailedWriteNotFatal ==
    /\ [][\A c \in Consumers :
            BeatFailed(c) /\ ~reporter[c].cancelled =>
              /\ reporter'[c].pc = "sleep"
              /\ reporter'[c].timer = KeepAliveTimeout \div 10
              /\ reporter'[c].stop = "none"
              /\ live' = live
              /\ failRun'[c] > 0]_vars
    /\ \A c \in Consumers :
         reporter[c].pc = "sleep" ~>
            (reporter[c].pc = "beat" \/ reporter[c].cancelled)

\* After three failed writes in a row the reporter is at its next tick.
C14_Witness ==
    \E c \in Consumers :
        /\ Running(c)
        /\ reporter[c].pc = "beat"
        /\ failRun[c] = 3
        /\ wrote[c]

\* ------------------------------------------------------------------ C15
\* C15: StopAndWait on a started consumer returns only after the heartbeat
\* thread has seen the cancellation and exited; it does return; after it has
\* returned the consumer writes no liveness record and its thread does nothing.
C15_StopWaitsForExit ==
    /\ [](\A c \in Consumers :
            reporter[c].stop = "returned" =>
              reporter[c].pc = "done" /\ reporter[c].cancelled)
    /\ \A c \in Consumers :
         reporter[c].stop = "waiting" ~> reporter[c].stop = "returned"
    /\ [][\A c \in Consumers :
            reporter[c].stop = "returned" =>
              /\ reporter'[c] = reporter[c]
              /\ live'[heartBeatKey(c)] <= live[heartBeatKey(c)]
              /\ wrote'[c] = wrote[c]]_vars

\* StopAndWait has returned for a consumer whose record is still there; the
\* other reporter runs on.
C15_Witness ==
    \E c \in Consumers :
        /\ reporter[c].stop = "returned"
        /\ live[heartBeatKey(c)] > 0
        /\ \E o \in Consumers \ {c} : Running(o) /\ wrote[o]

\* ------------------------------------------------------------------ C16
\* C16: a heartbeat tick of a consumer, with Consume and SetResult calls of
\* the same and of the other consumer under way, changes its own liveness
\* record and nothing else: not a result record, not the stream, not the
\* delivered and pending sets, not a call, not the liveness record or the
\* reporter of another consumer.  No other step of a reporter changes the
\* store, and no foreground call changes a liveness record.
C16_HeartBeatFrame ==
    /\ [][\A c \in Consumers :
            BeatStep(c) =>
              /\ store' = store
              /\ call' = call /\ ret' = ret
              /\ history' = history
              /\ \A o \in Consumers \ {c} :
                   /\ live'[heartBeatKey(o)] = live[heartBeatKey(o)]
                   /\ reporter'[o] = reporter[o]
                   /\ wrote'[o] = wrote[o]]_vars
    /\ [][reporter' # reporter => store' = store /\ call' = call]_vars
    /\ [][store' # store \/ call' # call \/ ret' # ret => live' = live]_vars

\* Both reporters have written their records, one of them after a failed
\* tick of the other, while a SetResult call is between its write and its
\* acknowledge: the result record and the pending entry are in place.
C16_Witness ==
    \E c \in Consumers, o \in Consumers :
        /\ c # o
        /\ reporter[c].pc = "sleep" /\ wrote[c]
        /\ live[heartBeatKey(c)] > 0
        /\ reporter[o].pc = "sleep" /\ failRun[o] = 1
        /\ live[heartBeatKey(o)] = 0
        /\ InProgress(1)
        /\ kv[1] # Absent
        /\ Owners(1) # {}
\* ------------------------------------------------------------------ C17
\* C17: a liveness record comes into being by a successful tick of its
\* consumer, is set back to its full life by every later one, and leaves the
\* key space only when its life of 2K since the last successful write is
\* over: no step of Start, of a tick or of StopAndWait removes it.  After
\* StopAndWait has returned the record stays as it is, then expires, and is
\* not written again.
C17_RemovedOnlyByExpiry ==
    /\ [][\A c \in Consumers :
            LET k == heartBeatKey(c)
            IN /\ live'[k] > live[k] => BeatWrote(c)
               /\ live'[k] < live[k] =>
                     /\ live'[k] = live[k] - 1
                     /\ age'[c] = age[c] + 1
                     /\ \A o \in Consumers :
                          /\ reporter'[o].pc = reporter[o].pc
                          /\ reporter'[o].stop = reporter[o].stop]_vars
    /\ [](\A c \in Consumers :
            LET k == heartBeatKey(c)
            IN /\ live[k] > 0 => wrote[c]
               /\ wrote[c] => live[k] + age[c] = 2 * KeepAliveTimeout)
    /\ [][\A c \in Consumers :
            reporter[c].stop # "returned" /\ reporter'[c].stop = "returned" =>
              live' = live]_vars
    /\ \A c \in Consumers :
         reporter[c].stop = "returned" ~> live[heartBeatKey(c)] = 0
    /\ [][\A c \in Consumers :
            reporter[c].stop = "returned" /\ live[heartBeatKey(c)] = 0 =>
              live'[heartBeatKey(c)] = 0]_vars

\* The record of a stopped consumer has run out, 2K after its last write.
C17_Witness ==
    \E c \in Consumers :
        /\ reporter[c].stop = "returned"
        /\ wrote[c]
        /\ live[heartBeatKey(c)] = 0
        /\ age[c] = 2 * KeepAliveTimeout

\* ------------------------------------------------------------------ C18
\* C18: with time counted as the model counts it (a write takes no time, a
\* tick comes K/10 after the one before), the record of a running consumer
\* that has written it once is present as long as fewer than 19 writes in a
\* row have failed since the last successful one.
C18_NoFalseDead ==
    \A c \in Consumers :
        Running(c) /\ wrote[c] /\ failRun[c] < 19 =>
            live[heartBeatKey(c)] > 0

\* Eighteen writes in a row have failed and the nineteenth tick is due: the
\* record has one unit left.
C18_Witness ==
    \E c \in Consumers :
        /\ KeepAliveTimeout = 10
        /\ Running(c) /\ wrote[c]
        /\ reporter[c].pc = "beat"
        /\ failRun[c] = 18
        /\ live[heartBeatKey(c)] = 1

\* ------------------------------------------------------------------ C19
\* A SetResult call for d wrote its result and its acknowledge then failed:
\* more acknowledges were issued for d than calls returned nil.
AckFailed(d) == acks[d] > nilCount[d]

\* The step starts a SetResult call for d.
SetResultStarts(d) == started'[d] = started[d] + 1

\* C19: once a SetResult call for D has written the result and failed to
\* acknowledge, every later SetResult call for D made while the record is
\* present fails at the create-only write and acknowledges nothing; as long
\* as the record has not expired D stays pending and no call for D returns
\* nil.  No step other than the XAck of a call in progress acknowledges.
C19_StuckAfterAckFailure ==
    /\ [][\A d \in IDs :
            AckFailed(d) /\ kv[d] # Absent /\ SetResultStarts(d) =>
              /\ ret'.op = "SetResult" /\ ret'.id = d
              /\ ret'.err = "setting result" /\ ret'.cause \in {"none", "io"}
              /\ call' = call
              /\ acks' = acks
              /\ kv' = kv
              /\ pending' = pending]_vars
    /\ [][\A d \in IDs :
            Owners(d)' # Owners(d) /\ Owners(d) # {} =>
              \E c \in Consumers : AckStep(c, d)]_vars
    /\ [](\A d \in IDs :
            AckFailed(d) /\ ~expired[d] =>
              /\ Owners(d) # {}
              /\ nilCount[d] = 0
              /\ acks[d] = 1
              /\ ~InProgress(d) => kv[d] # Absent)

\* After a failed acknowledge a second call came, for the same identifier,
\* and was turned away by the record of the first: D is still pending.
C19_Witness ==
    /\ ret.op = "SetResult" /\ ret.seq = 2
    /\ ret.err = "setting result" /\ ret.cause = "none"
    /\ AckFailed(ret.id) /\ ~expired[ret.id]
    /\ acks[ret.id] = 1
    /\ kv[ret.id] # Absent
    /\ Owners(ret.id) # {}

====
